---- MODULE Spec2Model ----
(***************************************************************************)
(* Model of the AWS API key manager deployment tools                       *)
(* (tools/aws-deploy.py, tools/aws-dns-setup.py, tools/cloudformation.py,  *)
(* tools/configuration.py).                                                *)
(*                                                                         *)
(* The deployment script is a sequential program: every remote call is an  *)
(* os.popen / os.system of the AWS command line; one action of the model   *)
(* is one blocking step of main().  Python values are modelled as tagged   *)
(* records [t, v] so that isinstance() dispatch can be translated as the   *)
(* code performs it.                                                       *)
(***************************************************************************)
EXTENDS Integers, Sequences, FiniteSets, TLC

VARIABLES
    params,          \* argparse namespace handed to main()
    config,          \* the configuration module's resource paths
    pc,              \* position of main()
    phase,           \* last workflow state reached
    stackName, databaseName, apiGatewayName, domainName,
    deploymentPackageName, templateName, template,
    capabilityFile,  \* parsed content of params.capability_file, once read
    capabilitySet, rootKey, tableEntryAttrs,
    tableList,       \* the TableNames of the list-tables response
    apiBaseUrl, publicBaseUrl,
    calls,           \* remote commands issued so far, in order
    message,         \* what the top-level handler printed
    exitStatus,      \* process exit status, NotExited while running
    tables, buckets, objects, stacks, items, domains,  \* the AWS account
    value, attr, codecPc, \* the attribute codec applied on its own
    files,           \* names of the local files the scripts have written
    hashOf,          \* hash() of the running interpreter, on the path prefixes
    lastTemplate,    \* the template the interpreter before this one produced
    hostedZones,     \* the HostedZones of the list-hosted-zones response
    dnsHostedZoneId, \* hosted zone identifier found by aws-dns-setup.py
    other            \* a second run of aws-deploy.py, while it is not scheduled

names == <<stackName, databaseName, apiGatewayName, domainName>>
artifacts == <<deploymentPackageName, templateName, template>>
record == <<capabilityFile, capabilitySet, rootKey, tableEntryAttrs, tableList>>
urls == <<apiBaseUrl, publicBaseUrl>>
remote == <<tables, buckets, objects, stacks, items, domains>>
codec == <<value, attr, codecPc>>
builder == <<hashOf, lastTemplate>>
registrar == <<hostedZones, dnsHostedZoneId>>
local == <<params, config, phase, names, artifacts, record, urls, codec, files, builder, registrar, other>>
vars == <<params, config, pc, phase, names, artifacts, record, urls, calls,
          message, exitStatus, remote, codec, files, builder, registrar, other>>

-----------------------------------------------------------------------------
(* Python values *)

\* Python's None where a string is expected (argparse default=None).
None == "<None>"

PyStr(s) == [t |-> "str", v |-> s]
PyBool(b) == [t |-> "bool", v |-> b]
PyInt(n) == [t |-> "int", v |-> n]
PyDict(f) == [t |-> "dict", v |-> f]
PyList(q) == [t |-> "list", v |-> q]
PyNone == [t |-> "none", v |-> None]

EmptyMap == [k \in {} |-> PyNone]
EmptyDict == PyDict(EmptyMap)
Dict1(k, val) == PyDict([kk \in {k} |-> val])

\* isinstance(value, cls): bool is a subclass of int in Python.
IsInstance(val, cls) ==
    CASE cls = "str" -> val.t = "str"
      [] cls = "bool" -> val.t = "bool"
      [] cls = "int" -> val.t \in {"int", "bool"}
      [] cls = "dict" -> val.t = "dict"
      [] cls = "list" -> val.t = "list"
      [] OTHER -> FALSE

\* str() of a digit.
DigitStr(d) ==
    CASE d = 0 -> "0" [] d = 1 -> "1" [] d = 2 -> "2" [] d = 3 -> "3"
      [] d = 4 -> "4" [] d = 5 -> "5" [] d = 6 -> "6" [] d = 7 -> "7"
      [] d = 8 -> "8" [] d = 9 -> "9"

RECURSIVE NatStr(_)
NatStr(n) == IF n < 10 THEN DigitStr(n) ELSE NatStr(n \div 10) \o DigitStr(n % 10)

\* str(value) for the values that reach the number branch of the codec.
Str(val) ==
    IF val.t = "bool" THEN (IF val.v THEN "True" ELSE "False")
    ELSE IF val.v < 0 THEN "-" \o NatStr(0 - val.v) ELSE NatStr(val.v)

-----------------------------------------------------------------------------
(* Attribute codec: formatDynamoAttr / mapToDynamoAttrs *)

RECURSIVE FormatDynamoAttr(_), MapToDynamoAttrs(_), FormatList(_)

\* A plausible slip: the int test placed before the bool test.
FormatDynamoAttrIntFirst(val) ==
    IF IsInstance(val, "str") THEN Dict1("S", val)
    ELSE IF IsInstance(val, "int") THEN Dict1("N", PyStr(Str(val)))
    ELSE IF IsInstance(val, "bool") THEN Dict1("BOOL", val)
    ELSE IF IsInstance(val, "dict") THEN Dict1("M", MapToDynamoAttrs(val))
    ELSE IF IsInstance(val, "list") THEN Dict1("L", PyList(FormatList(val.v)))
    ELSE PyNone

\* The if/elif chain; a value matching no branch falls off the end of the
\* function, which returns None.
FormatDynamoAttr(val) ==
    IF IsInstance(val, "str") THEN Dict1("S", val)
    ELSE IF IsInstance(val, "bool") THEN Dict1("BOOL", val)
    ELSE IF IsInstance(val, "int") THEN Dict1("N", PyStr(Str(val)))
    ELSE IF IsInstance(val, "dict") THEN Dict1("M", MapToDynamoAttrs(val))
    ELSE IF IsInstance(val, "list") THEN Dict1("L", PyList(FormatList(val.v)))
    ELSE PyNone

\* The loop over the list items, appending each formatted item.
FormatList(q) ==
    IF q = <<>> THEN <<>>
    ELSE <<FormatDynamoAttr(Head(q))>> \o FormatList(Tail(q))

MapToDynamoAttrs(pythonDict) ==
    PyDict([k \in DOMAIN pythonDict.v |-> FormatDynamoAttr(pythonDict.v[k])])

-----------------------------------------------------------------------------
(* Strings that the code takes apart are sequences of characters *)

RECURSIVE JoinStr(_)
\* The Python string a sequence of characters (or of whole strings) spells.
JoinStr(q) == IF q = <<>> THEN "" ELSE Head(q) \o JoinStr(Tail(q))

RECURSIVE SplitFrom(_, _, _, _)
SplitFrom(s, sep, cur, acc) ==
    IF s = <<>> THEN Append(acc, cur)
    ELSE IF Head(s) = sep THEN SplitFrom(Tail(s), sep, <<>>, Append(acc, cur))
    ELSE SplitFrom(Tail(s), sep, Append(cur, Head(s)), acc)

\* str.split(sep) for a one-character separator.
Split(s, sep) == SplitFrom(s, sep, <<>>, <<>>)

RECURSIVE Replace(_, _, _)
\* str.replace(old, new); new is kept as one element.
Replace(s, old, new) ==
    IF Len(s) < Len(old) THEN s
    ELSE IF SubSeq(s, 1, Len(old)) = old
         THEN <<new>> \o Replace(SubSeq(s, Len(old) + 1, Len(s)), old, new)
         ELSE <<Head(s)>> \o Replace(Tail(s), old, new)

-----------------------------------------------------------------------------
(* configuration.py *)

API_KEY_TABLE_DEFAULT_NAME == "ApiKeyTable"
AWS_S3_DEFAULT_DEPLOYMENT_BUCKET == "com-zynaptic-aws-deployment"
AWS_CLOUD_FORMATION_DEFAULT_STACK_NAME == "aws-api-key-manager"
RESOURCE_CUSTOM_DOMAIN_BASE_PATH == "ApiKeyManager"
RESOURCE_KEY_CREATE_PATH == <<"/", "C", "r", "e", "a", "t", "e">>
RESOURCE_KEY_ACCESS_PATH ==
    <<"/", "K", "e", "y", "s", "/", "{", "a", "p", "i", "K", "e", "y", "}">>
API_KEY_READ_CAPABILITY_NAME == "com.zynaptic.aws.api.key.read"
API_KEY_CREATE_CAPABILITY_NAME == "com.zynaptic.aws.api.key.create"
API_KEY_DELETE_CAPABILITY_NAME == "com.zynaptic.aws.api.key.delete"

-----------------------------------------------------------------------------
(* Inputs of a run *)

MaxJars == 2

Stages == {"production", "testing", "Production"}
DomainNames == {None, "api.example.com"}
CapabilityFiles == {None, "capabilities.json"}
RootKeys == {"cm9vdC1rZXk"}
Region == "eu-west-1"
RestApiId == "a1b2c3"

\* The resource paths of the configuration module, as shipped and with the
\* leading slash of one of them left out.
PathConfigs ==
    { [RESOURCE_KEY_CREATE_PATH |-> c, RESOURCE_KEY_ACCESS_PATH |-> a] :
        <<c, a>> \in { <<RESOURCE_KEY_CREATE_PATH, RESOURCE_KEY_ACCESS_PATH>>,
                       <<Tail(RESOURCE_KEY_CREATE_PATH), RESOURCE_KEY_ACCESS_PATH>>,
                       <<RESOURCE_KEY_CREATE_PATH, Tail(RESOURCE_KEY_ACCESS_PATH)>> } }

\* An item of the get-domain-names response; regional says whether the item
\* carries a regionalDomainName key.
DomainItem(d, r) == [domainName |-> d, regional |-> r]
DomainRegistries ==
    { {},
      {DomainItem("api.example.com", TRUE), DomainItem("testing.api.example.com", TRUE),
       DomainItem("Production.api.example.com", TRUE)},
      {DomainItem("api.example.com", FALSE), DomainItem("testing.api.example.com", FALSE)},
      {DomainItem("api.example.com", TRUE)} }

InitialTables == SUBSET {"ApiKeyTable", "ApiKeyTable-testing"}
InitialBuckets == SUBSET {AWS_S3_DEFAULT_DEPLOYMENT_BUCKET}

\* Property bags a capability file may give a capability; null is what
\* json.loads makes of a JSON null.
PropertyBags == {EmptyDict, Dict1("capabilityLock", PyBool(TRUE)), PyNone}
CapabilityNames ==
    {API_KEY_CREATE_CAPABILITY_NAME, API_KEY_READ_CAPABILITY_NAME,
     API_KEY_DELETE_CAPABILITY_NAME, "custom.cap"}
Seeds == UNION { {PyDict(f) : f \in [D -> PropertyBags]} : D \in SUBSET CapabilityNames }

NotExited == 0 - 1
NoStacks == [n \in {} |-> ""]

CodecIdle == value = PyNone /\ attr = PyNone /\ codecPc = "idle"
\* No path prefix hashed, no earlier template.
NoHash == [s \in {} |-> 0]
BuilderIdle == hashOf = NoHash /\ lastTemplate = PyNone
RegistrarIdle == hostedZones = <<>> /\ dnsHostedZoneId = None
\* No second run.
NoOther == [pc |-> "absent"]

Init ==
    /\ params \in [region : {Region},
                   deployment_bucket : {AWS_S3_DEFAULT_DEPLOYMENT_BUCKET},
                   database_name : {API_KEY_TABLE_DEFAULT_NAME},
                   stack_name : {AWS_CLOUD_FORMATION_DEFAULT_STACK_NAME},
                   capability_file : CapabilityFiles,
                   api_gateway_name : {"ApiKeyManager"},
                   deployment_stage : Stages,
                   domain_name : DomainNames]
    /\ config \in PathConfigs
    /\ pc = "start"
    /\ phase = "start"
    /\ stackName = None /\ databaseName = None
    /\ apiGatewayName = None /\ domainName = None
    /\ deploymentPackageName = None /\ templateName = None /\ template = PyNone
    /\ capabilityFile = PyNone /\ capabilitySet = PyNone
    /\ rootKey = None /\ tableEntryAttrs = PyNone
    /\ tableList = {}
    /\ apiBaseUrl = None /\ publicBaseUrl = None
    /\ calls = <<>>
    /\ message = None
    /\ exitStatus = NotExited
    /\ tables \in InitialTables
    /\ buckets \in InitialBuckets
    /\ objects = {}
    /\ stacks = NoStacks
    /\ items = {}
    /\ domains \in DomainRegistries
    /\ CodecIdle
    /\ files = {}
    /\ BuilderIdle
    /\ RegistrarIdle
    /\ other = NoOther

-----------------------------------------------------------------------------
(* Running a command and leaving main() *)

\* One command handed to os.popen or os.system; ok is whether it succeeded.
Call(op, args, ok) == [op |-> op, args |-> args, ok |-> ok]

\* What json.loads raises on the empty output of a failed command.
JsonError == "Expecting value: line 1 column 1 (char 0)"

\* A teardown the handler does not have: deleting the stacks on the way out.
AbortWithTeardown(msg) ==
    /\ pc' = "failed"
    /\ message' = msg
    /\ exitStatus' = 0
    /\ stacks' = NoStacks
    /\ UNCHANGED <<tables, buckets, objects, items, domains>>

\* except Exception as e: print(e); exit()
Abort(msg) ==
    /\ pc' = "failed"
    /\ message' = msg
    /\ exitStatus' = 0
    /\ UNCHANGED remote

\* An exception raised after the commands cs were run.
Fail(cs, msg) ==
    /\ calls' = calls \o cs
    /\ Abort(msg)
    /\ UNCHANGED local

-----------------------------------------------------------------------------
(* main(): stage naming *)

\* The table name left without its stage suffix.
DerivedNamesTableUnsuffixed(p) ==
    IF p.deployment_stage = "production"
    THEN [stackName |-> p.stack_name, databaseName |-> p.database_name,
          apiGatewayName |-> p.api_gateway_name, domainName |-> p.domain_name]
    ELSE [stackName |-> p.stack_name \o "-" \o p.deployment_stage,
          databaseName |-> p.database_name,
          apiGatewayName |-> p.api_gateway_name \o "-" \o p.deployment_stage,
          domainName |-> IF p.domain_name # None
                         THEN p.deployment_stage \o "." \o p.domain_name
                         ELSE None]

DerivedNames(p) ==
    IF p.deployment_stage = "production"
    THEN [stackName |-> p.stack_name, databaseName |-> p.database_name,
          apiGatewayName |-> p.api_gateway_name, domainName |-> p.domain_name]
    ELSE [stackName |-> p.stack_name \o "-" \o p.deployment_stage,
          databaseName |-> p.database_name \o "-" \o p.deployment_stage,
          apiGatewayName |-> p.api_gateway_name \o "-" \o p.deployment_stage,
          domainName |-> IF p.domain_name # None
                         THEN p.deployment_stage \o "." \o p.domain_name
                         ELSE None]

DeriveNames ==
    /\ pc = "start"
    /\ stackName' = DerivedNames(params).stackName
    /\ databaseName' = DerivedNames(params).databaseName
    /\ apiGatewayName' = DerivedNames(params).apiGatewayName
    /\ domainName' = DerivedNames(params).domainName
    /\ pc' = "checkKeyDatabase"
    /\ UNCHANGED <<params, config, phase, artifacts, record, urls, calls,
                   message, exitStatus, remote, codec, files, builder, registrar, other>>

-----------------------------------------------------------------------------
(* main(): pre-deployment checks *)

\* The check with its assertion left out.
CheckKeyDatabaseNoAssert ==
    /\ pc = "checkKeyDatabase"
    /\ \/ Fail(<<Call("list-tables", <<params.region>>, FALSE)>>, JsonError)
       \/ /\ calls' = Append(calls, Call("list-tables", <<params.region>>, TRUE))
          /\ tableList' = tables
          /\ pc' = "checkDeploymentBucket"
          /\ UNCHANGED <<params, config, phase, names, artifacts, capabilityFile,
                         capabilitySet, rootKey, tableEntryAttrs, urls, message,
                         exitStatus, remote, codec, files, builder, registrar, other>>

CheckKeyDatabase ==
    /\ pc = "checkKeyDatabase"
    /\ \/ Fail(<<Call("list-tables", <<params.region>>, FALSE)>>, JsonError)
       \/ /\ calls' = Append(calls, Call("list-tables", <<params.region>>, TRUE))
          /\ tableList' = tables
          /\ IF \E tableName \in tables : tableName = databaseName
             THEN /\ Abort("API key database '" \o databaseName
                           \o "' is already configured for this AWS region.")
                  /\ UNCHANGED <<params, config, phase, names, artifacts,
                                 capabilityFile, capabilitySet, rootKey,
                                 tableEntryAttrs, urls, codec, files, builder, registrar, other>>
             ELSE /\ pc' = "checkDeploymentBucket"
                  /\ UNCHANGED <<params, config, phase, names, artifacts,
                                 capabilityFile, capabilitySet, rootKey,
                                 tableEntryAttrs, urls, message, exitStatus,
                                 remote, codec, files, builder, registrar, other>>

\* Where main() goes once the bucket check has returned.
AfterBucketCheck ==
    IF domainName # None
    THEN pc' = "checkDnsRegistration" /\ phase' = phase
    ELSE pc' = "build" /\ phase' = "precondition-checked"

\* A plausible slip: the bucket created whether or not it is listed.
CheckDeploymentBucketAlwaysCreates ==
    /\ pc = "checkDeploymentBucket"
    /\ \/ Fail(<<Call("list-buckets", <<params.region>>, FALSE)>>, JsonError)
       \/ /\ calls' = Append(calls, Call("list-buckets", <<params.region>>, TRUE))
          /\ pc' = "createBucket" /\ phase' = phase
          /\ UNCHANGED <<params, config, names, artifacts, record, urls,
                         message, exitStatus, remote, codec, files, builder, registrar, other>>

CheckDeploymentBucket ==
    /\ pc = "checkDeploymentBucket"
    /\ \/ Fail(<<Call("list-buckets", <<params.region>>, FALSE)>>, JsonError)
       \/ /\ calls' = Append(calls, Call("list-buckets", <<params.region>>, TRUE))
          /\ IF \E bucketName \in buckets : bucketName = params.deployment_bucket
             THEN AfterBucketCheck
             ELSE pc' = "createBucket" /\ phase' = phase
          /\ UNCHANGED <<params, config, names, artifacts, record, urls,
                         message, exitStatus, remote, codec, files, builder, registrar, other>>

CreateBucket ==
    /\ pc = "createBucket"
    /\ \/ Fail(<<Call("create-bucket", <<params.deployment_bucket>>, FALSE)>>, JsonError)
       \/ /\ calls' = Append(calls, Call("create-bucket", <<params.deployment_bucket>>, TRUE))
          /\ buckets' = buckets \cup {params.deployment_bucket}
          /\ AfterBucketCheck
          /\ UNCHANGED <<params, config, names, artifacts, record, urls,
                         message, exitStatus, tables, objects, stacks, items,
                         domains, codec, files, builder, registrar, other>>

CheckDnsRegistration ==
    /\ pc = "checkDnsRegistration"
    /\ \/ Fail(<<Call("get-domain-names", <<params.region>>, FALSE)>>, JsonError)
       \/ LET ran == <<Call("get-domain-names", <<params.region>>, TRUE)>>
              matched == {item \in domains : item.domainName = domainName}
          IN  IF matched = {}
              THEN Fail(ran, "Failed to find configured domain name for '"
                              \o domainName \o "'")
              ELSE IF \E item \in matched : ~item.regional
              THEN Fail(ran, "Matched domain name '" \o domainName
                              \o "' is not a regional endpoint")
              ELSE /\ calls' = calls \o ran
                   /\ pc' = "build"
                   /\ phase' = "precondition-checked"
                   /\ UNCHANGED <<params, config, names, artifacts, record,
                                  urls, message, exitStatus, remote, codec, files, builder, registrar, other>>

-----------------------------------------------------------------------------
(* main(): build, template and uploads *)

AWS_LAMBDA_DEFAULT_PACKAGE_NAME == "aws-api-key-manager-1.0.0.jar"

\* mvn install (its status is not looked at), then the glob for *.jar.
Build ==
    /\ pc = "build"
    /\ \E jarFiles \in 0..MaxJars :
         IF jarFiles # 1
         THEN Fail(<<>>, "Maven build should produce exactly one target .jar file.")
         ELSE /\ deploymentPackageName' = AWS_LAMBDA_DEFAULT_PACKAGE_NAME
              /\ pc' = "uploadPackage"
              /\ UNCHANGED <<params, config, phase, names, templateName, template,
                             record, urls, calls, message, exitStatus, remote, codec, files, builder, registrar, other>>

\* uploadDeploymentFile(region, bucket, packageName, packageFile)
UploadDeploymentFile(packageName, ok) ==
    Call("put-object", <<params.deployment_bucket, packageName>>, ok)

UploadPackage ==
    /\ pc = "uploadPackage"
    /\ \/ Fail(<<UploadDeploymentFile(deploymentPackageName, FALSE)>>, JsonError)
       \/ /\ calls' = Append(calls, UploadDeploymentFile(deploymentPackageName, TRUE))
          /\ objects' = objects \cup {deploymentPackageName}
          /\ pc' = "createTemplate"
          /\ UNCHANGED <<params, config, phase, names, artifacts, record, urls,
                         message, exitStatus, tables, buckets, stacks, items,
                         domains, codec, files, builder, registrar, other>>

\* A path check that accepts every path.
CreateGatewayResourceRaisesNever(resourcePath) == FALSE

\* createGatewayResource raises when the text before the first "/" is not
\* empty.
CreateGatewayResourceRaises(resourcePath) ==
    Split(resourcePath, "/")[1] # <<>>

\* createTemplate builds the gateway resources of the create path and then of
\* the access path.
CreateTemplateRaises(cfg) ==
    \/ CreateGatewayResourceRaises(cfg.RESOURCE_KEY_CREATE_PATH)
    \/ CreateGatewayResourceRaises(cfg.RESOURCE_KEY_ACCESS_PATH)

\* What raise ("Invalid resource path : ...") prints: raising a str is itself
\* a TypeError.
RaiseStrError == "exceptions must derive from BaseException"

(* cloudformation.py: declarations, and the table declaration *)

API_KEY_TABLE_READ_CAPACITY_UNITS == 1
API_KEY_TABLE_WRITE_CAPACITY_UNITS == 1
AWS_API_KEY_RETENTION_PERIOD == 2592000

\* The configuration module with the given paths and capacity units.
Configuration(createPath, accessPath, readUnits, writeUnits) ==
    [RESOURCE_KEY_CREATE_PATH |-> createPath, RESOURCE_KEY_ACCESS_PATH |-> accessPath,
     API_KEY_TABLE_READ_CAPACITY_UNITS |-> readUnits,
     API_KEY_TABLE_WRITE_CAPACITY_UNITS |-> writeUnits,
     AWS_API_KEY_RETENTION_PERIOD |-> AWS_API_KEY_RETENTION_PERIOD]

\* A resource map {k1: v1, ...} is a function from logical identifiers to
\* declarations; {**a, **b} and a.update(b) let the entries of b win.
Update(a, b) == b @@ a
Ref(id) == Dict1("Ref", PyStr(id))
GetAtt(id, attribute) == Dict1("Fn::GetAtt", PyList(<<PyStr(id), PyStr(attribute)>>))
Join(parts) == Dict1("Fn::Join", PyList(<<PyStr(""), PyList(parts)>>))
AssumeRolePolicyDocument(service) ==
    PyDict([Statement |-> PyList(<<PyDict(
        [Effect |-> PyStr("Allow"),
         Principal |-> PyDict([Service |-> PyList(<<PyStr(service)>>)]),
         Action |-> PyStr("sts:AssumeRole")])>>)])
Policy(policyName, action, resource) ==
    PyDict([PolicyName |-> PyStr(policyName),
            PolicyDocument |-> PyDict([Statement |-> PyList(<<PyDict(
                [Effect |-> PyStr("Allow"), Action |-> action,
                 Resource |-> resource])>>)])])

\* A plausible slip: provisioned billing when either capacity is positive.
ProvisionedEither(cfg) ==
    \/ cfg.API_KEY_TABLE_READ_CAPACITY_UNITS > 0
    \/ cfg.API_KEY_TABLE_WRITE_CAPACITY_UNITS > 0

\* The test that selects the provisioned billing mode.
Provisioned(cfg) ==
    /\ cfg.API_KEY_TABLE_READ_CAPACITY_UNITS > 0
    /\ cfg.API_KEY_TABLE_WRITE_CAPACITY_UNITS > 0

\* createApiKeyCapabilityTable(databaseName)
CreateApiKeyCapabilityTable(cfg, database) ==
    LET billingMode ==
            IF Provisioned(cfg)
            THEN [BillingMode |-> PyStr("PROVISIONED"),
                  ProvisionedThroughput |-> PyDict(
                     [ReadCapacityUnits |-> PyInt(cfg.API_KEY_TABLE_READ_CAPACITY_UNITS),
                      WriteCapacityUnits |-> PyInt(cfg.API_KEY_TABLE_WRITE_CAPACITY_UNITS)])]
            ELSE [BillingMode |-> PyStr("PAY_PER_REQUEST")]
        tableName == IF database # None THEN [TableName |-> PyStr(database)] ELSE EmptyMap
        properties ==
            [AttributeDefinitions |-> PyList(<<PyDict(
                 [AttributeName |-> PyStr("apiKey"), AttributeType |-> PyStr("S")])>>),
             KeySchema |-> PyList(<<PyDict(
                 [AttributeName |-> PyStr("apiKey"), KeyType |-> PyStr("HASH")])>>),
             TimeToLiveSpecification |-> PyDict(
                 [Enabled |-> PyBool(TRUE), AttributeName |-> PyStr("removalTimestamp")])]
    IN [ApiKeyCapabilityTable |-> PyDict(
          [Type |-> PyStr("AWS::DynamoDB::Table"),
           Properties |-> PyDict(Update(Update(properties, billingMode), tableName))])]

\* The parameters of createTemplate as they appear in the template; the
\* table name is the one the table declaration carries.
CreateTemplate(database, deploymentBucket, packageName, gatewayName, deploymentStage, domain) ==
    LET properties ==
            CreateApiKeyCapabilityTable(
                Configuration(RESOURCE_KEY_CREATE_PATH, RESOURCE_KEY_ACCESS_PATH,
                              API_KEY_TABLE_READ_CAPACITY_UNITS,
                              API_KEY_TABLE_WRITE_CAPACITY_UNITS),
                database).ApiKeyCapabilityTable.v.Properties.v
    IN [TableName |-> IF "TableName" \in DOMAIN properties
                      THEN properties.TableName.v ELSE None,
        S3Bucket |-> deploymentBucket, S3Key |-> packageName,
        Name |-> gatewayName, StageName |-> deploymentStage, DomainName |-> domain]

CreateTemplateFile ==
    /\ pc = "createTemplate"
    /\ templateName' = stackName \o "-template.json"
    /\ IF CreateTemplateRaises(config)
       THEN /\ Abort(RaiseStrError)
            /\ UNCHANGED <<params, config, phase, names, deploymentPackageName,
                           template, record, urls, calls, codec, files, builder, registrar, other>>
       ELSE /\ template' = CreateTemplate(databaseName, params.deployment_bucket,
                                          deploymentPackageName, apiGatewayName,
                                          params.deployment_stage, domainName)
            /\ files' = files \cup {templateName'}
            /\ pc' = "uploadTemplate"
            /\ UNCHANGED <<params, config, phase, names, deploymentPackageName,
                           record, urls, calls, message, exitStatus, remote, codec,
                           builder, registrar, other>>

\* A failed upload tried again instead of ending the run.
UploadTemplateRetrying ==
    /\ pc = "uploadTemplate"
    /\ \/ /\ calls' = Append(calls, UploadDeploymentFile(templateName, FALSE))
          /\ UNCHANGED <<params, config, pc, phase, names, artifacts, record,
                         urls, message, exitStatus, remote, codec, files, builder, registrar, other>>
       \/ /\ calls' = Append(calls, UploadDeploymentFile(templateName, TRUE))
          /\ objects' = objects \cup {templateName}
          /\ pc' = "createStack"
          /\ phase' = "artifact-uploaded"
          /\ UNCHANGED <<params, config, names, artifacts, record, urls,
                         message, exitStatus, tables, buckets, stacks, items,
                         domains, codec, files, builder, registrar, other>>

UploadTemplate ==
    /\ pc = "uploadTemplate"
    /\ \/ Fail(<<UploadDeploymentFile(templateName, FALSE)>>, JsonError)
       \/ /\ calls' = Append(calls, UploadDeploymentFile(templateName, TRUE))
          /\ objects' = objects \cup {templateName}
          /\ pc' = "createStack"
          /\ phase' = "artifact-uploaded"
          /\ UNCHANGED <<params, config, names, artifacts, record, urls,
                         message, exitStatus, tables, buckets, stacks, items,
                         domains, codec, files, builder, registrar, other>>

-----------------------------------------------------------------------------
(* createStack() *)

\* A plausible slip: the URL of the builder's default file name.
TemplateUrlDefaultName(bucketName, awsRegion, name) ==
    "https://" \o bucketName \o ".s3." \o awsRegion
        \o ".amazonaws.com/cloudformation-template.json"

TemplateUrl(bucketName, awsRegion, name) ==
    "https://" \o bucketName \o ".s3." \o awsRegion \o ".amazonaws.com/" \o name

CreateStackCall(ok) ==
    Call("create-stack",
         <<stackName, TemplateUrl(params.deployment_bucket, params.region, templateName)>>,
         ok)

\* create-stack succeeds only for a stack name the account does not have.
CreateStack ==
    /\ pc = "createStack"
    /\ \/ Fail(<<CreateStackCall(FALSE)>>, JsonError)
       \/ /\ stackName \notin DOMAIN stacks
          /\ calls' = Append(calls, CreateStackCall(TRUE))
          /\ stacks' = (stackName :> "CREATE_IN_PROGRESS") @@ stacks
          /\ pc' = "waitStack"
          /\ phase' = "template-submitted"
          /\ UNCHANGED <<params, config, names, artifacts, record, urls,
                         message, exitStatus, tables, buckets, objects, items,
                         domains, codec, files, builder, registrar, other>>

\* os.system("aws cloudformation wait stack-create-complete ..."): the status
\* os.system returns is dropped, and "Stack creation complete" is printed
\* whatever it was.  A stack that completes has created its table; one that
\* does not is rolled back by CloudFormation.
WaitStack ==
    /\ pc = "waitStack"
    /\ \/ /\ calls' = Append(calls, Call("wait-stack-create-complete", <<stackName>>, TRUE))
          /\ stacks' = [stacks EXCEPT ![stackName] = "CREATE_COMPLETE"]
          /\ tables' = tables \cup {template.TableName}
       \/ /\ calls' = Append(calls, Call("wait-stack-create-complete", <<stackName>>, FALSE))
          /\ stacks' = [stacks EXCEPT ![stackName] = "ROLLBACK_COMPLETE"]
          /\ tables' = tables
    /\ pc' = "loadCapabilitySet"
    /\ phase' = "stack-ready"
    /\ UNCHANGED <<params, config, names, artifacts, record, urls, message,
                   exitStatus, buckets, objects, items, domains, codec, files, builder, registrar, other>>

-----------------------------------------------------------------------------
(* main(): the root capability record *)

\* capabilitySet[name] = bag
SetItem(d, name, bag) == PyDict((name :> bag) @@ d.v)

\* The required capabilities assigned whether or not the seed has them.
IncludeRequiredCapabilitiesAlways(seed) ==
    SetItem(SetItem(SetItem(seed, API_KEY_CREATE_CAPABILITY_NAME,
                            Dict1("capabilityLock", PyBool(FALSE))),
                    API_KEY_READ_CAPABILITY_NAME, EmptyDict),
            API_KEY_DELETE_CAPABILITY_NAME, EmptyDict)

\* The three "if name not in capabilitySet" statements, in order.
IncludeRequiredCapabilities(seed) ==
    LET c1 == IF API_KEY_CREATE_CAPABILITY_NAME \notin DOMAIN seed.v
              THEN SetItem(seed, API_KEY_CREATE_CAPABILITY_NAME,
                           Dict1("capabilityLock", PyBool(FALSE)))
              ELSE seed
        c2 == IF API_KEY_READ_CAPABILITY_NAME \notin DOMAIN c1.v
              THEN SetItem(c1, API_KEY_READ_CAPABILITY_NAME, EmptyDict)
              ELSE c1
    IN  IF API_KEY_DELETE_CAPABILITY_NAME \notin DOMAIN c2.v
        THEN SetItem(c2, API_KEY_DELETE_CAPABILITY_NAME, EmptyDict)
        ELSE c2

\* The capability file is read here and nowhere earlier, so its content is
\* drawn when it is read.
LoadCapabilitySet ==
    /\ pc = "loadCapabilitySet"
    /\ \E content \in (IF params.capability_file = None THEN {EmptyDict} ELSE Seeds) :
         /\ capabilityFile' = content
         /\ capabilitySet' = IncludeRequiredCapabilities(content)
    /\ pc' = "loadRootKey"
    /\ UNCHANGED <<params, config, phase, names, artifacts, rootKey,
                   tableEntryAttrs, tableList, urls, calls, message, exitStatus,
                   remote, codec, files, builder, registrar, other>>

\* int(datetime(9999, 12, 31).timestamp() * 1000) is 253402214400000 in UTC;
\* it is kept here in units of 10^6 ms, which fit TLC's 32-bit integers.
ExpiryTimestamp == 253402214

TableEntry(key, capabilities) ==
    PyDict([apiKey |-> PyStr(key),
            authorityKeys |-> PyList(<<>>),
            description |-> PyStr("API key manager root capability set"),
            expiryTimestamp |-> PyInt(ExpiryTimestamp),
            capabilitySet |-> capabilities])

\* loadRootKey(): the put-item succeeds only on a table that exists.
LoadRootKey ==
    /\ pc = "loadRootKey"
    /\ \E key \in RootKeys :
         /\ rootKey' = key
         /\ tableEntryAttrs' = MapToDynamoAttrs(TableEntry(key, capabilitySet))
    /\ \/ /\ calls' = Append(calls, Call("put-item", <<databaseName>>, FALSE))
          /\ Abort(JsonError)
          /\ UNCHANGED phase
       \/ /\ databaseName \in tables
          /\ calls' = Append(calls, Call("put-item", <<databaseName>>, TRUE))
          /\ items' = items \cup {[table |-> databaseName, item |-> tableEntryAttrs']}
          /\ pc' = "deriveApiBaseUrl"
          /\ phase' = "record-written"
          /\ UNCHANGED <<message, exitStatus, tables, buckets, objects, stacks,
                         domains>>
    /\ UNCHANGED <<params, config, names, artifacts, capabilityFile,
                   capabilitySet, tableList, urls, codec, files, builder, registrar, other>>

-----------------------------------------------------------------------------
(* main(): base URLs and the test reads *)

ApiBaseUrl(awsResourceId, awsRegion, deploymentStage) ==
    "https://" \o awsResourceId \o ".execute-api." \o awsRegion
        \o ".amazonaws.com/" \o deploymentStage

\* A plausible slip: no public URL whatever the domain.
DerivePublicBaseUrlNever(domain) == None

DerivePublicBaseUrl(domain) ==
    IF domain = None THEN None
    ELSE "https://" \o domain \o "/" \o RESOURCE_CUSTOM_DOMAIN_BASE_PATH

DeriveApiBaseUrl ==
    /\ pc = "deriveApiBaseUrl"
    /\ \/ Fail(<<Call("describe-stack-resource", <<stackName>>, FALSE)>>, JsonError)
       \/ /\ stackName \in DOMAIN stacks
          /\ calls' = Append(calls, Call("describe-stack-resource", <<stackName>>, TRUE))
          /\ apiBaseUrl' = ApiBaseUrl(RestApiId, params.region, params.deployment_stage)
          /\ publicBaseUrl' = DerivePublicBaseUrl(domainName)
          /\ pc' = "testReadApi"
          /\ UNCHANGED <<params, config, phase, names, artifacts, record,
                         message, exitStatus, remote, codec, files, builder, registrar, other>>

ApiKeyPlaceholder == <<"{", "a", "p", "i", "K", "e", "y", "}">>

\* baseUrl + RESOURCE_KEY_ACCESS_PATH with "{apiKey}" replaced by the key.
RootKeyUrl(baseUrl, key) ==
    JoinStr(Replace(<<baseUrl>> \o config.RESOURCE_KEY_ACCESS_PATH,
                    ApiKeyPlaceholder, key))

\* testReadRootKey(baseUrl, rootKey); main() goes to next after it.
TestReadRootKey(baseUrl, next) ==
    \/ Fail(<<Call("curl", <<RootKeyUrl(baseUrl, rootKey), rootKey>>, FALSE)>>, JsonError)
    \/ /\ calls' = Append(calls, Call("curl", <<RootKeyUrl(baseUrl, rootKey), rootKey>>, TRUE))
       /\ pc' = next
       /\ IF next = "done"
          THEN phase' = "verified" /\ exitStatus' = 0
          ELSE phase' = phase /\ exitStatus' = exitStatus
       /\ UNCHANGED <<params, config, names, artifacts, record, urls, message,
                      remote, codec, files, builder, registrar, other>>

TestReadApi ==
    /\ pc = "testReadApi"
    /\ TestReadRootKey(apiBaseUrl, IF publicBaseUrl # None THEN "testReadPublic" ELSE "done")

TestReadPublic ==
    /\ pc = "testReadPublic"
    /\ TestReadRootKey(publicBaseUrl, "done")

-----------------------------------------------------------------------------

Next ==
    \/ DeriveNames
    \/ CheckKeyDatabase
    \/ CheckDeploymentBucket
    \/ CreateBucket
    \/ CheckDnsRegistration
    \/ Build
    \/ UploadPackage
    \/ CreateTemplateFile
    \/ UploadTemplate
    \/ CreateStack
    \/ WaitStack
    \/ LoadCapabilitySet
    \/ LoadRootKey
    \/ DeriveApiBaseUrl
    \/ TestReadApi
    \/ TestReadPublic

Spec == Init /\ [][Next]_vars

-----------------------------------------------------------------------------
(* The attribute codec applied to one value *)

MaxDepth == 2

\* Values of the kinds the codec names, and of two it does not.
SupportedAtoms ==
    {PyStr("x"), PyStr("3"), PyBool(TRUE), PyBool(FALSE),
     PyInt(1), PyInt(3), PyInt(0 - 10)}
UnsupportedAtoms == {PyNone, [t |-> "tuple", v |-> <<>>]}
MapKeys == {"a", "b"}

\* Lists and mappings one level deeper than the values of base: of at most
\* one entry over base, of two entries over atoms.
Nest(atoms, base) ==
    base
    \cup {PyList(q) : q \in {<<>>} \cup {<<x>> : x \in base}
                          \cup {<<x, y>> : x \in atoms, y \in atoms}}
    \cup {PyDict(f) : f \in UNION ({[D -> base] : D \in {{}} \cup {{k} : k \in MapKeys}}
                                   \cup {[MapKeys -> atoms]})}

RECURSIVE ValuesOfDepth(_, _)
ValuesOfDepth(atoms, d) ==
    IF d = 0 THEN atoms ELSE Nest(atoms, ValuesOfDepth(atoms, d - 1))

SupportedValues == ValuesOfDepth(SupportedAtoms, MaxDepth)
CodecValues == ValuesOfDepth(SupportedAtoms \cup UnsupportedAtoms, MaxDepth)

CodecInit ==
    /\ params = [region |-> Region,
                 deployment_bucket |-> AWS_S3_DEFAULT_DEPLOYMENT_BUCKET,
                 database_name |-> API_KEY_TABLE_DEFAULT_NAME,
                 stack_name |-> AWS_CLOUD_FORMATION_DEFAULT_STACK_NAME,
                 capability_file |-> None,
                 api_gateway_name |-> "ApiKeyManager",
                 deployment_stage |-> "production",
                 domain_name |-> None]
    /\ config = [RESOURCE_KEY_CREATE_PATH |-> RESOURCE_KEY_CREATE_PATH,
                 RESOURCE_KEY_ACCESS_PATH |-> RESOURCE_KEY_ACCESS_PATH]
    /\ pc = "idle"
    /\ phase = "start"
    /\ stackName = None /\ databaseName = None
    /\ apiGatewayName = None /\ domainName = None
    /\ deploymentPackageName = None /\ templateName = None /\ template = PyNone
    /\ capabilityFile = PyNone /\ capabilitySet = PyNone
    /\ rootKey = None /\ tableEntryAttrs = PyNone
    /\ tableList = {}
    /\ apiBaseUrl = None /\ publicBaseUrl = None
    /\ calls = <<>>
    /\ message = None
    /\ exitStatus = NotExited
    /\ tables = {} /\ buckets = {} /\ objects = {}
    /\ stacks = NoStacks /\ items = {} /\ domains = {}
    /\ value \in CodecValues
    /\ attr = PyNone
    /\ codecPc = "ready"
    /\ files = {}
    /\ BuilderIdle
    /\ RegistrarIdle
    /\ other = NoOther

\* formatDynamoAttr(value)
Encode ==
    /\ codecPc = "ready"
    /\ attr' = FormatDynamoAttr(value)
    /\ codecPc' = "done"
    /\ UNCHANGED <<params, config, pc, phase, names, artifacts, record, urls,
                   calls, message, exitStatus, remote, value, files, builder, registrar, other>>

CodecNext == Encode

CodecSpec == CodecInit /\ [][CodecNext]_vars

-----------------------------------------------------------------------------
(* Properties of the deployment workflow *)

Issued == {calls[i] : i \in 1..Len(calls)}
IssuedOps == {c.op : c \in Issued}

MutatingOps == {"create-bucket", "put-object", "create-stack", "put-item"}

WorkflowStates ==
    <<"start", "precondition-checked", "artifact-uploaded", "template-submitted",
      "stack-ready", "record-written", "verified">>
StateIndex(st) == CHOOSE i \in 1..Len(WorkflowStates) : WorkflowStates[i] = st

\* C1: a remote call that reports an error is the last call of the run, and
\* put-item is issued only after a wait that reported create-complete.
C1_AbortsOnAnyRemoteError ==
    /\ \A i \in 1..Len(calls) : ~calls[i].ok => (i = Len(calls) /\ pc = "failed")
    /\ "put-item" \in IssuedOps
         => \E c \in Issued : c.op = "wait-stack-create-complete" /\ c.ok

\* C2: the workflow state only ever advances to the next state of the list,
\* every state reached has the calls of its step behind it, and no command is
\* issued twice.
C2_StrictOrder ==
    [][ /\ phase' # phase => StateIndex(phase') = StateIndex(phase) + 1
        /\ \A i, j \in 1..Len(calls') : calls'[i] = calls'[j] => i = j
        /\ StateIndex(phase') >= 2 => {"list-tables", "list-buckets"} \subseteq IssuedOps'
        /\ StateIndex(phase') >= 3 =>
             \A name \in {deploymentPackageName', templateName'} :
               \E c \in Issued' : c.op = "put-object" /\ c.args[2] = name /\ c.ok
        /\ StateIndex(phase') >= 4 => \E c \in Issued' : c.op = "create-stack" /\ c.ok
        /\ StateIndex(phase') >= 5 => "wait-stack-create-complete" \in IssuedOps'
        /\ StateIndex(phase') >= 6 => \E c \in Issued' : c.op = "put-item" /\ c.ok
        /\ StateIndex(phase') >= 7 => \E c \in Issued' : c.op = "curl" /\ c.ok
        /\ pc' = "done" <=> phase' = "verified" ]_vars

C2_Witness == pc = "done" /\ phase = "verified" /\ Len(calls) >= 10

\* C3: when the list-tables response holds the target table name, no
\* mutating call is ever issued.
C3_NoMutationWhenTableExists ==
    databaseName \in tableList => IssuedOps \cap MutatingOps = {}

C3_Witness == databaseName \in tableList /\ pc = "failed" /\ Len(calls) = 1

StartsWithSlash(path) == path # <<>> /\ path[1] = "/"
InvalidResourcePath ==
    \/ ~StartsWithSlash(config.RESOURCE_KEY_CREATE_PATH)
    \/ ~StartsWithSlash(config.RESOURCE_KEY_ACCESS_PATH)
MissingDomainConfiguration ==
    /\ domainName # None
    /\ ~\E item \in domains : item.domainName = domainName /\ item.regional
MalformedInputReported ==
    \/ message = RaiseStrError
    \/ /\ domainName # None
       /\ message \in {"Failed to find configured domain name for '" \o domainName \o "'",
                       "Matched domain name '" \o domainName
                           \o "' is not a regional endpoint"}

C5_FailureExitsNonZero ==
    pc = "failed" => (message # None /\ exitStatus > 0)

\* C6: no step undoes an effect of an earlier one, and the step that fails
\* leaves the account as it found it.
C6_NoRollback ==
    [][ /\ tables \subseteq tables' /\ buckets \subseteq buckets'
        /\ objects \subseteq objects' /\ items \subseteq items'
        /\ DOMAIN stacks \subseteq DOMAIN stacks'
        /\ (pc' = "failed" /\ pc # "failed") => remote' = remote ]_vars

C6_Witness ==
    /\ pc = "failed" /\ "put-item" \in IssuedOps
    /\ stackName \in DOMAIN stacks /\ stacks[stackName] = "CREATE_COMPLETE"
    /\ items = {}

RECURSIVE AllSupported(_)
\* Every value in val, at any depth, is of a kind the codec names.
AllSupported(val) ==
    CASE val.t \in {"str", "bool", "int"} -> TRUE
      [] val.t = "dict" -> \A k \in DOMAIN val.v : AllSupported(val.v[k])
      [] val.t = "list" -> \A i \in 1..Len(val.v) : AllSupported(val.v[i])
      [] OTHER -> FALSE

\* C7: no put-item is issued for a record that holds a value of an
\* unsupported kind.
C7_UnsupportedNeverWritten ==
    "put-item" \in IssuedOps => AllSupported(capabilitySet)


-----------------------------------------------------------------------------
(* Properties of the attribute codec *)

\* The decimal numerals of the integers among the atoms.
Decimal(n) == CASE n = 1 -> "1" [] n = 3 -> "3" [] n = 0 - 10 -> "-10"

RECURSIVE WellTagged(_, _)
\* a is a one-key mapping whose key is the tag of val's kind and whose value
\* carries val: the string or boolean itself, the numeral of a number, the
\* tagged entries of a mapping under the same keys, the tagged items of a
\* list in the same order.
WellTagged(val, a) ==
    /\ a.t = "dict"
    /\ Cardinality(DOMAIN a.v) = 1
    /\ CASE val.t = "str" -> DOMAIN a.v = {"S"} /\ a.v["S"] = val
         [] val.t = "bool" -> DOMAIN a.v = {"BOOL"} /\ a.v["BOOL"] = val
         [] val.t = "int" -> DOMAIN a.v = {"N"} /\ a.v["N"] = PyStr(Decimal(val.v))
         [] val.t = "dict" ->
              /\ DOMAIN a.v = {"M"}
              /\ a.v["M"].t = "dict"
              /\ DOMAIN a.v["M"].v = DOMAIN val.v
              /\ \A k \in DOMAIN val.v : WellTagged(val.v[k], a.v["M"].v[k])
         [] val.t = "list" ->
              /\ DOMAIN a.v = {"L"}
              /\ a.v["L"].t = "list"
              /\ Len(a.v["L"].v) = Len(val.v)
              /\ \A i \in 1..Len(val.v) : WellTagged(val.v[i], a.v["L"].v[i])
         [] OTHER -> FALSE

\* The encodings of the supported values.
Encodings == [w \in SupportedValues |-> FormatDynamoAttr(w)]

\* C8: the encoding of a supported value is the tagged form of that value,
\* and no other supported value has the same encoding.
C8_TaggedAndInjective ==
    (codecPc = "done" /\ AllSupported(value)) =>
        /\ WellTagged(value, attr)
        /\ \A w \in SupportedValues : Encodings[w] = attr => w = value

\* encode({"a": [1, "x"]}) == {"M": {"a": {"L": [{"N": "1"}, {"S": "x"}]}}}
C8_Witness ==
    /\ codecPc = "done"
    /\ value = Dict1("a", PyList(<<PyInt(1), PyStr("x")>>))
    /\ attr = Dict1("M", Dict1("a", Dict1("L",
                PyList(<<Dict1("N", PyStr("1")), Dict1("S", PyStr("x"))>>))))

-----------------------------------------------------------------------------
(* Properties of the record and of the names *)

RequiredCapabilities ==
    {API_KEY_CREATE_CAPABILITY_NAME, API_KEY_READ_CAPABILITY_NAME,
     API_KEY_DELETE_CAPABILITY_NAME}

\* C9: the capability set of the root record has the seed's entries as the
\* seed gives them, and create, read and delete with their default bags
\* where the seed has none; the record handed to put-item has those names.
C9_CapabilityMerge ==
    capabilitySet # PyNone =>
        /\ DOMAIN capabilitySet.v = DOMAIN capabilityFile.v \cup RequiredCapabilities
        /\ \A name \in DOMAIN capabilityFile.v :
             capabilitySet.v[name] = capabilityFile.v[name]
        /\ API_KEY_CREATE_CAPABILITY_NAME \notin DOMAIN capabilityFile.v =>
             capabilitySet.v[API_KEY_CREATE_CAPABILITY_NAME]
               = Dict1("capabilityLock", PyBool(FALSE))
        /\ \A name \in {API_KEY_READ_CAPABILITY_NAME, API_KEY_DELETE_CAPABILITY_NAME}
                         \ DOMAIN capabilityFile.v :
             capabilitySet.v[name] = EmptyDict
        /\ DOMAIN capabilityFile.v = {"custom.cap"} =>
             Cardinality(DOMAIN capabilitySet.v) = 4
        /\ tableEntryAttrs # PyNone =>
             DOMAIN tableEntryAttrs.v["capabilitySet"].v["M"].v = DOMAIN capabilitySet.v

C9_Witness ==
    /\ phase = "record-written"
    /\ capabilityFile = Dict1("custom.cap", EmptyDict)
    /\ Cardinality(DOMAIN capabilitySet.v) = 4

\* C10: once main() has derived them, the stack, table and gateway names are
\* the base names with "-" and the stage appended, and a given domain has the
\* stage and "." put before it, unless the stage is "production", when all
\* four are the parameters themselves; no call is issued before that.
C10_StageNaming ==
    /\ pc = "start" => calls = <<>>
    /\ pc \notin {"start", "idle"} =>
         /\ IF params.deployment_stage = "production"
            THEN /\ stackName = params.stack_name
                 /\ databaseName = params.database_name
                 /\ apiGatewayName = params.api_gateway_name
                 /\ domainName = params.domain_name
            ELSE /\ stackName = params.stack_name \o "-" \o params.deployment_stage
                 /\ databaseName = params.database_name \o "-" \o params.deployment_stage
                 /\ apiGatewayName = params.api_gateway_name \o "-" \o params.deployment_stage
                 /\ params.domain_name # None =>
                      domainName = params.deployment_stage \o "." \o params.domain_name
         /\ params.domain_name = None => domainName = None
         /\ params.deployment_stage = "testing" =>
              /\ stackName = "aws-api-key-manager-testing"
              /\ databaseName = "ApiKeyTable-testing"
              /\ apiGatewayName = "ApiKeyManager-testing"
         /\ \A c \in Issued :
              /\ c.op \in {"create-stack", "describe-stack-resource"} => c.args[1] = stackName
              /\ c.op = "put-item" => c.args[1] = databaseName

C10_Witness ==
    /\ pc = "done"
    /\ params.deployment_stage = "testing"
    /\ databaseName = "ApiKeyTable-testing"
    /\ domainName = "testing.api.example.com"

-----------------------------------------------------------------------------
(* cloudformation.py: the template builder *)

\* createApiKeyManagementLambda(deploymentBucket, packageName)
CreateApiKeyManagementLambda(cfg, deploymentBucket, packageName) ==
    LET lambdaDefinition ==
            [ApiKeyManagementLambda |-> PyDict(
               [Type |-> PyStr("AWS::Lambda::Function"),
                Properties |-> PyDict(
                   [Description |-> PyStr("API Key Management Service"),
                    Runtime |-> PyStr("java8.al2"),
                    MemorySize |-> PyInt(256),
                    Timeout |-> PyInt(30),
                    Handler |-> PyStr("com.zynaptic.aws.api.key.manager.ApiHandler"),
                    Role |-> GetAtt("ApiKeyManagementLambdaRole", "Arn"),
                    Code |-> PyDict([S3Bucket |-> PyStr(deploymentBucket),
                                     S3Key |-> PyStr(packageName)]),
                    Environment |-> PyDict([Variables |-> PyDict(
                       [AWS_API_KEY_TABLE_NAME |-> Ref("ApiKeyCapabilityTable"),
                        AWS_API_RESOURCE_KEY_CREATE_PATH |->
                            PyStr(JoinStr(cfg.RESOURCE_KEY_CREATE_PATH)),
                        AWS_API_RESOURCE_KEY_ACCESS_PATH |->
                            PyStr(JoinStr(cfg.RESOURCE_KEY_ACCESS_PATH)),
                        AWS_API_KEY_RETENTION_PERIOD |->
                            PyInt(cfg.AWS_API_KEY_RETENTION_PERIOD)])])])])]
        lambdaExecutionRole ==
            [ApiKeyManagementLambdaRole |-> PyDict(
               [Type |-> PyStr("AWS::IAM::Role"),
                Properties |-> PyDict(
                   [AssumeRolePolicyDocument |-> AssumeRolePolicyDocument("lambda.amazonaws.com"),
                    Policies |-> PyList(<<
                       Policy("ApiKeyCapabilityAccessPolicy",
                              PyList(<<PyStr("dynamodb:PutItem"), PyStr("dynamodb:GetItem"),
                                       PyStr("dynamodb:DeleteItem"), PyStr("dynamodb:UpdateItem")>>),
                              GetAtt("ApiKeyCapabilityTable", "Arn")),
                       Policy("ApiKeyManagementLoggingPolicy",
                              PyList(<<PyStr("logs:CreateLogGroup"), PyStr("logs:CreateLogStream"),
                                       PyStr("logs:PutLogEvents")>>),
                              Join(<<PyStr("arn:aws:logs:"), Ref("AWS::Region"), PyStr(":"),
                                     Ref("AWS::AccountId"), PyStr(":*")>>))>>)])])]
    IN Update(lambdaDefinition, lambdaExecutionRole)

\* hash() of a str is a signed machine word and never -1; its value for a
\* given string is fixed while an interpreter runs and is salted anew when
\* an interpreter starts (PYTHONHASHSEED unset).
HashBits == 2
HashValues == {n \in (0 - 2^(HashBits - 1))..(2^(HashBits - 1) - 1) : n # 0 - 1}
Abs(n) == IF n < 0 THEN 0 - n ELSE n
HexDigit(d) == IF d < 10 THEN DigitStr(d) ELSE <<"A", "B", "C", "D", "E", "F">>[d - 9]
RECURSIVE Hex(_)
\* "%X" % n
Hex(n) == IF n < 16 THEN HexDigit(n) ELSE Hex(n \div 16) \o HexDigit(n % 16)

\* "ApiKeyRestResource%X" % (abs(hash(resourceHashSource)))
ResourceId(h, resourceHashSource) ==
    "ApiKeyRestResource" \o Hex(Abs(h[JoinStr(resourceHashSource)]))

RECURSIVE GatewayResourceLoop(_, _, _, _, _)
\* The loop over the path segments.
GatewayResourceLoop(h, resourcePathSegments, resourceHashSource, resourceParent, resourceSet) ==
    IF resourcePathSegments = <<>> THEN resourceSet
    ELSE LET resourcePathSegment == Head(resourcePathSegments)
             hashSource == resourceHashSource \o <<"/">> \o resourcePathSegment
             resourceId == ResourceId(h, hashSource)
             declaration ==
                 PyDict([Type |-> PyStr("AWS::ApiGateway::Resource"),
                         Properties |-> PyDict(
                            [RestApiId |-> Ref("ApiKeyRestGateway"),
                             ParentId |-> resourceParent,
                             PathPart |-> PyStr(JoinStr(resourcePathSegment))])])
         IN GatewayResourceLoop(h, Tail(resourcePathSegments), hashSource, Ref(resourceId),
                                Update(resourceSet, resourceId :> declaration))

\* createGatewayResource(resourcePath), for a path that passes the check of
\* CreateGatewayResourceRaises.
CreateGatewayResource(h, resourcePath) ==
    GatewayResourceLoop(h, Tail(Split(resourcePath, "/")), <<>>,
                        GetAtt("ApiKeyRestGateway", "RootResourceId"), EmptyMap)

\* One of the two method declarations, which differ in the path only.
RestMethod(h, resourcePath) ==
    PyDict([Type |-> PyStr("AWS::ApiGateway::Method"),
            Properties |-> PyDict(
               [RestApiId |-> Ref("ApiKeyRestGateway"),
                ResourceId |-> Ref(ResourceId(h, resourcePath)),
                HttpMethod |-> PyStr("ANY"),
                AuthorizationType |-> PyStr("NONE"),
                Integration |-> PyDict(
                   [Type |-> PyStr("AWS_PROXY"),
                    IntegrationHttpMethod |-> PyStr("POST"),
                    Credentials |-> GetAtt("ApiKeyRestGatewayRole", "Arn"),
                    Uri |-> Join(<<PyStr("arn:aws:apigateway:"), Ref("AWS::Region"),
                                   PyStr(":lambda:path/2015-03-31/functions/"),
                                   GetAtt("ApiKeyManagementLambda", "Arn"),
                                   PyStr("/invocations")>>)])])])

\* createApiKeyRestGateway(apiGatewayName, stagingName)
CreateApiKeyRestGateway(h, cfg, gatewayName, stagingName) ==
    LET restGateway ==
            [ApiKeyRestGateway |-> PyDict(
               [Type |-> PyStr("AWS::ApiGateway::RestApi"),
                Properties |-> PyDict(
                   [Name |-> PyStr(gatewayName),
                    Description |-> PyStr("API Key Management Service (" \o stagingName \o ")"),
                    EndpointConfiguration |->
                        PyDict([Types |-> PyList(<<PyStr("REGIONAL")>>)])])])]
        restGatewayDefinition ==
            Update(Update(restGateway,
                          CreateGatewayResource(h, cfg.RESOURCE_KEY_CREATE_PATH)),
                   CreateGatewayResource(h, cfg.RESOURCE_KEY_ACCESS_PATH))
        restKeyCreateMethodDefinition ==
            [ApiKeyRestCreateMethod |-> RestMethod(h, cfg.RESOURCE_KEY_CREATE_PATH)]
        restKeyAccessMethodDefinition ==
            [ApiKeyRestAccessMethod |-> RestMethod(h, cfg.RESOURCE_KEY_ACCESS_PATH)]
        restGatewayRole ==
            [ApiKeyRestGatewayRole |-> PyDict(
               [Type |-> PyStr("AWS::IAM::Role"),
                Properties |-> PyDict(
                   [AssumeRolePolicyDocument |->
                        AssumeRolePolicyDocument("apigateway.amazonaws.com"),
                    Policies |-> PyList(<<
                       Policy("ApiKeyManagementLambdaPolicy",
                              PyStr("lambda:InvokeFunction"),
                              GetAtt("ApiKeyManagementLambda", "Arn"))>>)])])]
    IN Update(Update(Update(restGatewayDefinition, restKeyCreateMethodDefinition),
                     restKeyAccessMethodDefinition), restGatewayRole)

\* createApiGatewayDeployment(stagingName)
CreateApiGatewayDeployment(stagingName) ==
    [ApiKeyRestGatewayDeployment |-> PyDict(
       [Type |-> PyStr("AWS::ApiGateway::Deployment"),
        DependsOn |-> PyList(<<PyStr("ApiKeyRestCreateMethod"),
                               PyStr("ApiKeyRestAccessMethod")>>),
        Properties |-> PyDict([RestApiId |-> Ref("ApiKeyRestGateway"),
                               StageName |-> PyStr(stagingName)])])]

\* createApiCustomDomain(domainName, deploymentStage) of cloudformation.py
CreateApiCustomDomain(domain, deploymentStage) ==
    [ApiKeyRestGatewayMapping |-> PyDict(
       [Type |-> PyStr("AWS::ApiGateway::BasePathMapping"),
        DependsOn |-> PyStr("ApiKeyRestGatewayDeployment"),
        Properties |-> PyDict([DomainName |-> PyStr(domain),
                               BasePath |-> PyStr(RESOURCE_CUSTOM_DOMAIN_BASE_PATH),
                               RestApiId |-> Ref("ApiKeyRestGateway"),
                               Stage |-> PyStr(deploymentStage)])])]

\* The resources createTemplate collects, in the order it collects them.
TemplateResources(h, cfg, database, deploymentBucket, packageName, gatewayName, deploymentStage, domain) ==
    LET resources ==
            Update(Update(Update(CreateApiKeyCapabilityTable(cfg, database),
                                 CreateApiKeyManagementLambda(cfg, deploymentBucket, packageName)),
                          CreateApiKeyRestGateway(h, cfg, gatewayName, deploymentStage)),
                   CreateApiGatewayDeployment(deploymentStage))
    IN IF domain # None
       THEN Update(resources, CreateApiCustomDomain(domain, deploymentStage))
       ELSE resources

\* The template data createTemplate hands to json.dumps.
TemplateData(h, cfg, database, deploymentBucket, packageName, gatewayName, deploymentStage, domain) ==
    PyDict([Resources |-> PyDict(TemplateResources(h, cfg, database, deploymentBucket,
                                                   packageName, gatewayName,
                                                   deploymentStage, domain))])

-----------------------------------------------------------------------------
(* The builder run on its own: createTemplate called by an interpreter, and *)
(* called again by the interpreter of a later run.                          *)

\* Create and access paths: as shipped, with a shared first segment, and
\* with the leading slash of the create path left out.
BuilderPaths ==
    { <<RESOURCE_KEY_CREATE_PATH, RESOURCE_KEY_ACCESS_PATH>>,
      <<SubSeq(RESOURCE_KEY_ACCESS_PATH, 1, 5), RESOURCE_KEY_ACCESS_PATH>>,
      <<Tail(RESOURCE_KEY_CREATE_PATH), RESOURCE_KEY_ACCESS_PATH>> }

BuilderConfigs ==
    { Configuration(p[1], p[2], API_KEY_TABLE_READ_CAPACITY_UNITS,
                    API_KEY_TABLE_WRITE_CAPACITY_UNITS) : p \in BuilderPaths }

RECURSIVE PathOf(_)
\* The path that a sequence of segments spells.
PathOf(segments) ==
    IF segments = <<>> THEN <<>>
    ELSE <<"/">> \o Head(segments) \o PathOf(Tail(segments))

\* The cumulative prefixes of a path, one for each of its segments.
CumulativePrefixes(resourcePath) ==
    LET segments == Tail(Split(resourcePath, "/"))
    IN {PathOf(SubSeq(segments, 1, i)) : i \in 1..Len(segments)}

\* The strings the builder passes to hash().
HashedStrings(cfg) ==
    {JoinStr(p) : p \in CumulativePrefixes(cfg.RESOURCE_KEY_CREATE_PATH)
                        \cup CumulativePrefixes(cfg.RESOURCE_KEY_ACCESS_PATH)}

\* The string hashes an interpreter may start with.
ProcessHashes(cfg) == [HashedStrings(cfg) -> HashValues]

\* No command issued and an account with nothing in it.
NothingIssued ==
    /\ calls = <<>> /\ message = None /\ exitStatus = NotExited
    /\ tables = {} /\ buckets = {} /\ objects = {}
    /\ stacks = NoStacks /\ items = {} /\ domains = {}

BuilderInit ==
    /\ params = [region |-> Region,
                 deployment_bucket |-> AWS_S3_DEFAULT_DEPLOYMENT_BUCKET,
                 database_name |-> API_KEY_TABLE_DEFAULT_NAME,
                 stack_name |-> AWS_CLOUD_FORMATION_DEFAULT_STACK_NAME,
                 capability_file |-> None,
                 api_gateway_name |-> "ApiKeyManager",
                 deployment_stage |-> "production",
                 domain_name |-> None]
    /\ config \in BuilderConfigs
    /\ pc = "builder"
    /\ phase = "start"
    /\ stackName = None
    /\ databaseName \in {None, API_KEY_TABLE_DEFAULT_NAME}
    /\ apiGatewayName = "ApiKeyManager"
    /\ domainName \in DomainNames
    /\ deploymentPackageName = AWS_LAMBDA_DEFAULT_PACKAGE_NAME
    /\ templateName = None /\ template = PyNone
    /\ capabilityFile = PyNone /\ capabilitySet = PyNone
    /\ rootKey = None /\ tableEntryAttrs = PyNone
    /\ tableList = {}
    /\ apiBaseUrl = None /\ publicBaseUrl = None
    /\ NothingIssued
    /\ CodecIdle
    /\ files = {}
    /\ hashOf \in ProcessHashes(config)
    /\ lastTemplate = PyNone
    /\ RegistrarIdle
    /\ other = NoOther

\* createTemplate(...), and the handler of the script when it raises.
BuildTemplate ==
    /\ pc = "builder"
    /\ IF CreateTemplateRaises(config)
       THEN /\ Abort(RaiseStrError)
            /\ UNCHANGED template
       ELSE /\ template' = TemplateData(hashOf, config, databaseName,
                                        params.deployment_bucket, deploymentPackageName,
                                        apiGatewayName, params.deployment_stage, domainName)
            /\ UNCHANGED <<pc, message, exitStatus, remote>>
    /\ UNCHANGED <<params, config, phase, names, deploymentPackageName, templateName,
                   record, urls, calls, codec, files, builder, registrar, other>>

\* The tool is run again: a new interpreter with its own string hashes; the
\* template of the run before is what that run left behind.
StartProcess ==
    /\ pc = "builder"
    /\ template # PyNone
    /\ \E h \in ProcessHashes(config) : hashOf' = h
    /\ lastTemplate' = template
    /\ template' = PyNone
    /\ UNCHANGED <<params, config, pc, phase, names, deploymentPackageName, templateName,
                   record, urls, calls, message, exitStatus, remote, codec, files,
                   registrar, other>>

BuilderNext == BuildTemplate \/ StartProcess

BuilderSpec == BuilderInit /\ [][BuilderNext]_vars

\* The logical identifiers a template declares.
Declared(t) == DOMAIN t.v.Resources.v

-----------------------------------------------------------------------------
\* C11: the builder is deterministic: two invocations with the same
\* parameters and configuration, also in two separate runs of the tool,
\* declare resources under the same identifiers.
C11_SameIdentifiersInEveryRun ==
    (template # PyNone /\ lastTemplate # PyNone) => Declared(template) = Declared(lastTemplate)

\* The gateway-resource declarations of a resource map.
GatewayResources(resources) ==
    {id \in DOMAIN resources : resources[id].v.Type = PyStr("AWS::ApiGateway::Resource")}

\* The cumulative prefixes of the two configured paths.
ConfiguredPrefixes ==
    CumulativePrefixes(config.RESOURCE_KEY_CREATE_PATH)
        \cup CumulativePrefixes(config.RESOURCE_KEY_ACCESS_PATH)

\* C12: identifiers are unique within a template: distinct cumulative
\* prefixes of the configured paths get distinct gateway-resource
\* identifiers, and the template holds one declaration for each prefix.
C12_IdentifiersUnique ==
    template # PyNone =>
        /\ \A p, q \in ConfiguredPrefixes :
              p # q => ResourceId(hashOf, p) # ResourceId(hashOf, q)
        /\ Cardinality(GatewayResources(template.v.Resources.v))
              = Cardinality(ConfiguredPrefixes)

\* The identifiers a declaration refers to with Ref or Fn::GetAtt.
RECURSIVE Targets(_)
Targets(val) ==
    IF val.t = "dict"
    THEN IF "Ref" \in DOMAIN val.v THEN {val.v["Ref"].v}
         ELSE IF "Fn::GetAtt" \in DOMAIN val.v THEN {val.v["Fn::GetAtt"].v[1].v}
         ELSE UNION {Targets(val.v[k]) : k \in DOMAIN val.v}
    ELSE IF val.t = "list" THEN UNION {Targets(val.v[i]) : i \in DOMAIN val.v}
    ELSE {}

\* The identifiers a declaration names in DependsOn, a string or a list.
DependsOn(declaration) ==
    IF "DependsOn" \notin DOMAIN declaration.v THEN {}
    ELSE IF declaration.v.DependsOn.t = "list"
         THEN {declaration.v.DependsOn.v[i].v : i \in DOMAIN declaration.v.DependsOn.v}
         ELSE {declaration.v.DependsOn.v}

PseudoParameters == {"AWS::Region", "AWS::AccountId"}

\* What a declaration of a resource map depends on, pseudo parameters left out.
Dependencies(resources, id) ==
    (Targets(resources[id]) \cup DependsOn(resources[id])) \ PseudoParameters

\* The last segment of a path.
LastSegment(resourcePath) == Split(resourcePath, "/")[Len(Split(resourcePath, "/"))]

\* The declaration a method's ResourceId names has the given path part.
MethodNames(resources, method, resourcePath) ==
    LET id == resources[method].v.Properties.v.ResourceId.v["Ref"].v
    IN /\ id \in GatewayResources(resources)
       /\ resources[id].v.Properties.v.PathPart = PyStr(JoinStr(LastSegment(resourcePath)))

\* C13: every Ref, Fn::GetAtt target and DependsOn identifier of the main
\* template that is not a pseudo parameter names a resource the template
\* declares, and the ResourceId of each method names the gateway resource
\* declared for the last segment of the method's path.
C13_ReferencesResolve ==
    template # PyNone =>
        LET resources == template.v.Resources.v
        IN /\ \A id \in DOMAIN resources : Dependencies(resources, id) \subseteq DOMAIN resources
           /\ MethodNames(resources, "ApiKeyRestCreateMethod", config.RESOURCE_KEY_CREATE_PATH)
           /\ MethodNames(resources, "ApiKeyRestAccessMethod", config.RESOURCE_KEY_ACCESS_PATH)

RECURSIVE ReachableFrom(_, _, _)
\* The identifiers reached from a set of identifiers in at most n more steps.
ReachableFrom(resources, ids, n) ==
    IF n = 0 THEN ids
    ELSE ReachableFrom(resources,
                       ids \cup UNION {Dependencies(resources, id) : id \in ids \cap DOMAIN resources},
                       n - 1)

\* No declaration depends, directly or through others, on itself.
Acyclic(resources) ==
    \A id \in DOMAIN resources :
        id \notin ReachableFrom(resources, Dependencies(resources, id),
                                Cardinality(DOMAIN resources))

\* C14: the dependency graph of DependsOn, Ref and Fn::GetAtt references is
\* acyclic; the deployment depends on both methods; the base path mapping is
\* declared exactly when a domain is supplied and depends on the deployment.
C14_DependenciesAcyclic ==
    template # PyNone =>
        LET resources == template.v.Resources.v
        IN /\ Acyclic(resources)
           /\ {"ApiKeyRestCreateMethod", "ApiKeyRestAccessMethod"}
                 \subseteq DependsOn(resources["ApiKeyRestGatewayDeployment"])
           /\ "ApiKeyRestGatewayMapping" \in DOMAIN resources <=> domainName # None
           /\ domainName # None =>
                 "ApiKeyRestGatewayDeployment" \in DependsOn(resources["ApiKeyRestGatewayMapping"])

\* The declarations of a path are chained: one for each segment, the first
\* under the gateway root, each later one under the one before it.
Chained(h, resourcePath) ==
    LET resourceSet == CreateGatewayResource(h, resourcePath)
        segments == Tail(Split(resourcePath, "/"))
        idOf(i) == ResourceId(h, PathOf(SubSeq(segments, 1, i)))
    IN /\ Cardinality(DOMAIN resourceSet) = Len(segments)
       /\ \A i \in 1..Len(segments) :
             /\ idOf(i) \in DOMAIN resourceSet
             /\ resourceSet[idOf(i)].v.Properties.v.PathPart = PyStr(JoinStr(segments[i]))
             /\ resourceSet[idOf(i)].v.Properties.v.ParentId =
                   IF i = 1 THEN GetAtt("ApiKeyRestGateway", "RootResourceId")
                   ELSE Ref(idOf(i - 1))

\* C15: for a path of n segments that starts with "/" the builder returns n
\* chained gateway-resource declarations.
C15_ChainedResources ==
    template # PyNone =>
        /\ Chained(hashOf, config.RESOURCE_KEY_CREATE_PATH)
        /\ Chained(hashOf, config.RESOURCE_KEY_ACCESS_PATH)

-----------------------------------------------------------------------------
(* The table declaration built on its own *)

MaxCapacity == 2
TableConfigs ==
    { Configuration(RESOURCE_KEY_CREATE_PATH, RESOURCE_KEY_ACCESS_PATH, r, w) :
        r \in (0 - MaxCapacity)..MaxCapacity, w \in (0 - MaxCapacity)..MaxCapacity }

TableInit ==
    /\ params = [region |-> Region,
                 deployment_bucket |-> AWS_S3_DEFAULT_DEPLOYMENT_BUCKET,
                 database_name |-> API_KEY_TABLE_DEFAULT_NAME,
                 stack_name |-> AWS_CLOUD_FORMATION_DEFAULT_STACK_NAME,
                 capability_file |-> None,
                 api_gateway_name |-> "ApiKeyManager",
                 deployment_stage |-> "production",
                 domain_name |-> None]
    /\ config \in TableConfigs
    /\ pc = "table"
    /\ phase = "start"
    /\ stackName = None
    /\ databaseName \in {None, API_KEY_TABLE_DEFAULT_NAME, "ApiKeyTable-testing"}
    /\ apiGatewayName = None /\ domainName = None
    /\ deploymentPackageName = None /\ templateName = None /\ template = PyNone
    /\ capabilityFile = PyNone /\ capabilitySet = PyNone
    /\ rootKey = None /\ tableEntryAttrs = PyNone
    /\ tableList = {}
    /\ apiBaseUrl = None /\ publicBaseUrl = None
    /\ NothingIssued
    /\ CodecIdle
    /\ files = {}
    /\ BuilderIdle
    /\ RegistrarIdle
    /\ other = NoOther

\* resources.update(createApiKeyCapabilityTable(databaseName)) on the empty
\* resource map.
BuildTable ==
    /\ pc = "table"
    /\ template' = PyDict([Resources |->
                               PyDict(CreateApiKeyCapabilityTable(config, databaseName))])
    /\ pc' = "tableBuilt"
    /\ UNCHANGED <<params, config, phase, names, deploymentPackageName, templateName,
                   record, urls, calls, message, exitStatus, remote, codec, files,
                   builder, registrar, other>>

TableNext == BuildTable

TableSpec == TableInit /\ [][TableNext]_vars

\* C16: the table is PROVISIONED with the two configured capacities when both
\* are positive and PAY_PER_REQUEST without ProvisionedThroughput otherwise;
\* it always has the hash key apiKey and the time-to-live attribute.
C16_BillingMode ==
    template # PyNone =>
        LET properties == template.v.Resources.v.ApiKeyCapabilityTable.v.Properties.v
            read == config.API_KEY_TABLE_READ_CAPACITY_UNITS
            write == config.API_KEY_TABLE_WRITE_CAPACITY_UNITS
        IN /\ (read > 0 /\ write > 0) =>
                 /\ properties.BillingMode = PyStr("PROVISIONED")
                 /\ properties.ProvisionedThroughput =
                       PyDict([ReadCapacityUnits |-> PyInt(read),
                               WriteCapacityUnits |-> PyInt(write)])
           /\ (read <= 0 \/ write <= 0) =>
                 /\ properties.BillingMode = PyStr("PAY_PER_REQUEST")
                 /\ "ProvisionedThroughput" \notin DOMAIN properties
           /\ properties.KeySchema =
                 PyList(<<PyDict([AttributeName |-> PyStr("apiKey"), KeyType |-> PyStr("HASH")])>>)
           /\ properties.AttributeDefinitions =
                 PyList(<<PyDict([AttributeName |-> PyStr("apiKey"), AttributeType |-> PyStr("S")])>>)
           /\ properties.TimeToLiveSpecification =
                 PyDict([Enabled |-> PyBool(TRUE), AttributeName |-> PyStr("removalTimestamp")])

C16_Witness ==
    /\ template # PyNone
    /\ config.API_KEY_TABLE_READ_CAPACITY_UNITS = 0
    /\ config.API_KEY_TABLE_WRITE_CAPACITY_UNITS = 2
    /\ template.v.Resources.v.ApiKeyCapabilityTable.v.Properties.v.BillingMode
          = PyStr("PAY_PER_REQUEST")

-----------------------------------------------------------------------------
(* aws-dns-setup.py: the DNS setup script.  Domain and zone names are       *)
(* sequences of labels and dots.                                            *)

AWS_CLOUD_FORMATION_DEFAULT_DNS_STACK_NAME == "aws-api-dns-configuration"

\* Hosted zones of the account, as list-hosted-zones reports them.
HostedZoneRecords ==
    { [Name |-> <<"example", ".", "com", ".">>, Id |-> <<"/", "hostedzone", "/", "Z1">>],
      [Name |-> <<"api", ".", "example", ".", "com", ".">>,
       Id |-> <<"/", "hostedzone", "/", "Z2">>],
      [Name |-> <<"example", ".", "org", ".">>, Id |-> <<"/", "hostedzone", "/", "Z3">>] }

MaxZones == 2
\* The zone lists of at most MaxZones zones, in every order.
HostedZoneLists ==
    UNION { {q \in [1..n -> HostedZoneRecords] : \A i, j \in 1..n : i # j => q[i] # q[j]} :
              n \in 0..MaxZones }

\* The values of --domain_name.
RegistrarDomains ==
    { <<"testing", ".", "api", ".", "example", ".", "com">>,
      <<"api", ".", "example", ".", "com">>,
      <<"api", ".", "example", ".", "net">> }

\* str.endswith(suffix)
EndsWith(s, suffix) ==
    /\ Len(suffix) <= Len(s)
    /\ SubSeq(s, Len(s) - Len(suffix) + 1, Len(s)) = suffix

\* A plausible slip: every zone taken as a match.
ZoneMatchesAny(fullyQualifiedDomainName, hostedZone) == TRUE

\* fullyQualifiedDomainName.endswith("." + hostedZone["Name"])
ZoneMatches(fullyQualifiedDomainName, hostedZone) ==
    EndsWith(fullyQualifiedDomainName, <<".">> \o hostedZone.Name)

\* hostedZoneId when the loop has assigned nothing to it.
Unbound == <<"<unbound>">>

RECURSIVE FindHostedZoneId(_, _)
\* The loop over the hosted zones, left at the first match.
FindHostedZoneId(fullyQualifiedDomainName, zones) ==
    IF zones = <<>> THEN Unbound
    ELSE IF ZoneMatches(fullyQualifiedDomainName, Head(zones)) THEN Head(zones).Id
    ELSE FindHostedZoneId(fullyQualifiedDomainName, Tail(zones))

\* What reading the unassigned local prints, before and from Python 3.11.
UnboundLocalErrors ==
    { "local variable 'hostedZoneId' referenced before assignment",
      "cannot access local variable 'hostedZoneId' where it is not associated with a value" }

\* createApiCustomDomain(domainName, dnsHostedZoneId) of aws-dns-setup.py
RegistrarCreateApiCustomDomain(domain, zoneId) ==
    LET customDomainCert ==
            [ApiGatewayCert |-> PyDict(
               [Type |-> PyStr("AWS::CertificateManager::Certificate"),
                Properties |-> PyDict(
                   [DomainName |-> PyStr(domain),
                    ValidationMethod |-> PyStr("DNS"),
                    DomainValidationOptions |-> PyList(<<PyDict(
                       [DomainName |-> PyStr(domain), HostedZoneId |-> PyStr(zoneId)])>>)])])]
        customDomainDefinition ==
            [ApiGatewayDomain |-> PyDict(
               [Type |-> PyStr("AWS::ApiGateway::DomainName"),
                Properties |-> PyDict(
                   [DomainName |-> PyStr(domain),
                    RegionalCertificateArn |-> Ref("ApiGatewayCert"),
                    EndpointConfiguration |-> PyDict([Types |-> PyList(<<PyStr("REGIONAL")>>)]),
                    SecurityPolicy |-> PyStr("TLS_1_2")])])]
        aliasTarget ==
            PyDict([DNSName |-> GetAtt("ApiGatewayDomain", "RegionalDomainName"),
                    HostedZoneId |-> GetAtt("ApiGatewayDomain", "RegionalHostedZoneId")])
        dnsRecordDefinition ==
            [ApiGatewayDnsRecord |-> PyDict(
               [Type |-> PyStr("AWS::Route53::RecordSet"),
                DependsOn |-> PyStr("ApiGatewayDomain"),
                Properties |-> PyDict(
                   [Type |-> PyStr("A"),
                    AliasTarget |-> aliasTarget,
                    HostedZoneId |-> PyStr(zoneId),
                    Name |-> PyStr(domain)])])]
    IN Update(Update(customDomainCert, customDomainDefinition), dnsRecordDefinition)

RegistrarInit ==
    /\ params \in [domain_name : RegistrarDomains, region : {Region},
                   stack_name : {AWS_CLOUD_FORMATION_DEFAULT_DNS_STACK_NAME}]
    /\ config = Configuration(RESOURCE_KEY_CREATE_PATH, RESOURCE_KEY_ACCESS_PATH,
                              API_KEY_TABLE_READ_CAPACITY_UNITS,
                              API_KEY_TABLE_WRITE_CAPACITY_UNITS)
    /\ pc = "registrarCheckDnsRegistration"
    /\ phase = "start"
    /\ stackName = None /\ databaseName = None
    /\ apiGatewayName = None /\ domainName = None
    /\ deploymentPackageName = None /\ templateName = None /\ template = PyNone
    /\ capabilityFile = PyNone /\ capabilitySet = PyNone
    /\ rootKey = None /\ tableEntryAttrs = PyNone
    /\ tableList = {}
    /\ apiBaseUrl = None /\ publicBaseUrl = None
    /\ NothingIssued
    /\ CodecIdle
    /\ files = {}
    /\ BuilderIdle
    /\ hostedZones \in HostedZoneLists
    /\ dnsHostedZoneId = None
    /\ other = NoOther

\* checkDnsRegistration(params.domain_name) of aws-dns-setup.py; with no
\* matching zone the assert statement reads a local that was never assigned.
RegistrarCheckDnsRegistration ==
    /\ pc = "registrarCheckDnsRegistration"
    /\ \/ Fail(<<Call("list-hosted-zones", <<>>, FALSE)>>, JsonError)
       \/ /\ calls' = Append(calls, Call("list-hosted-zones", <<>>, TRUE))
          /\ LET hostedZoneId == FindHostedZoneId(params.domain_name \o <<".">>, hostedZones)
             IN IF hostedZoneId = Unbound
                THEN /\ \E e \in UnboundLocalErrors : Abort(e)
                     /\ UNCHANGED dnsHostedZoneId
                ELSE /\ dnsHostedZoneId' = JoinStr(LastSegment(hostedZoneId))
                     /\ pc' = "registrarCreateTemplate"
                     /\ UNCHANGED <<message, exitStatus, remote>>
          /\ UNCHANGED <<params, config, phase, names, artifacts, record, urls, codec,
                         files, builder, hostedZones, other>>

\* main() of aws-dns-setup.py: the template is built and written to a file.
RegistrarCreateTemplate ==
    /\ pc = "registrarCreateTemplate"
    /\ template' = PyDict([Resources |-> PyDict(
                      RegistrarCreateApiCustomDomain(JoinStr(params.domain_name),
                                                     dnsHostedZoneId))])
    /\ templateName' = params.stack_name \o "-template.json"
    /\ files' = files \cup {templateName'}
    /\ pc' = "registrarCreateStack"
    /\ UNCHANGED <<params, config, phase, names, deploymentPackageName, record, urls,
                   calls, message, exitStatus, remote, codec, builder, registrar, other>>

\* createStack of aws-dns-setup.py: the create-stack command.
RegistrarCreateStack ==
    /\ pc = "registrarCreateStack"
    /\ \/ Fail(<<Call("create-stack", <<params.stack_name, "file://" \o templateName>>, FALSE)>>,
               JsonError)
       \/ /\ calls' = Append(calls, Call("create-stack",
                                         <<params.stack_name, "file://" \o templateName>>, TRUE))
          /\ stacks' = (params.stack_name :> "CREATE_IN_PROGRESS") @@ stacks
          /\ pc' = "registrarWaitStack"
          /\ UNCHANGED <<params, config, phase, names, artifacts, record, urls,
                         message, exitStatus, tables, buckets, objects, items,
                         domains, codec, files, builder, registrar, other>>

\* createStack of aws-dns-setup.py: the wait, whose status is dropped.
RegistrarWaitStack ==
    /\ pc = "registrarWaitStack"
    /\ \E ok \in BOOLEAN :
          /\ calls' = Append(calls, Call("wait-stack-create-complete", <<params.stack_name>>, ok))
          /\ stacks' = [stacks EXCEPT ![params.stack_name] =
                           IF ok THEN "CREATE_COMPLETE" ELSE "ROLLBACK_COMPLETE"]
    /\ pc' = "done"
    /\ UNCHANGED <<params, config, phase, names, artifacts, record, urls, message,
                   exitStatus, tables, buckets, objects, items, domains, codec, files,
                   builder, registrar, other>>

RegistrarNext ==
    \/ RegistrarCheckDnsRegistration
    \/ RegistrarCreateTemplate
    \/ RegistrarCreateStack
    \/ RegistrarWaitStack

RegistrarSpec == RegistrarInit /\ [][RegistrarNext]_vars

\* The positions in the zone list of the zones that suffix-match the fully
\* qualified domain name.
SuffixMatches ==
    {i \in DOMAIN hostedZones :
        EndsWith(params.domain_name \o <<".">>, <<".">> \o hostedZones[i].Name)}

\* C17: for any zone list in any order the script resolves the most specific
\* matching zone, the suffix-matching zone with the longest name, and returns
\* its identifier with the path prefix stripped.
C17_MostSpecificZone ==
    dnsHostedZoneId # None =>
        \E i \in SuffixMatches :
            /\ \A j \in SuffixMatches : Len(hostedZones[j].Name) <= Len(hostedZones[i].Name)
            /\ dnsHostedZoneId = hostedZones[i].Id[Len(hostedZones[i].Id)]

\* C18: when no hosted zone suffix-matches the domain name the run does not
\* get past the check: it ends with the failure printed, no template file is
\* written and no create-stack is issued.
C18_NoMatchFails ==
    SuffixMatches = {} =>
        /\ pc \in {"registrarCheckDnsRegistration", "failed"}
        /\ pc = "failed" => message # None /\ exitStatus # NotExited
        /\ files = {} /\ template = PyNone
        /\ "create-stack" \notin IssuedOps

C18_Witness ==
    /\ SuffixMatches = {} /\ hostedZones # <<>>
    /\ pc = "failed" /\ message \in UnboundLocalErrors
    /\ calls = <<Call("list-hosted-zones", <<>>, TRUE)>>

-----------------------------------------------------------------------------
(* The deployment script again: the bucket check and the test reads *)

\* The command a step has just issued, or no command.
JustIssued(op) ==
    /\ Len(calls') = Len(calls) + 1
    /\ calls'[Len(calls')].op = op

\* C19: the bucket step issues create-bucket if and only if the bucket is
\* absent from the list-buckets response; when the bucket is present the
\* step changes nothing in the account and the workflow goes on.
C19_CreateBucketIffAbsent ==
    [][ /\ (pc = "checkDeploymentBucket" /\ JustIssued("list-buckets")
              /\ calls'[Len(calls')].ok) =>
              IF params.deployment_bucket \in buckets
              THEN /\ pc' \in {"checkDnsRegistration", "build"}
                   /\ remote' = remote
              ELSE pc' = "createBucket"
        /\ pc = "createBucket" =>
              /\ params.deployment_bucket \notin buckets
              /\ JustIssued("create-bucket")
        /\ JustIssued("create-bucket") =>
              /\ pc = "createBucket"
              /\ calls[Len(calls)] = Call("list-buckets", <<params.region>>, TRUE)
      ]_vars

C19_Witness ==
    /\ pc = "build"
    /\ params.deployment_bucket \in buckets
    /\ "list-buckets" \in IssuedOps
    /\ "create-bucket" \notin IssuedOps

\* The read of the root key at the gateway's own URL and at the public URL.
ApiRead(ok) ==
    Call("curl", <<"https://" \o RestApiId \o ".execute-api." \o params.region
                      \o ".amazonaws.com/" \o params.deployment_stage
                      \o "/Keys/" \o rootKey, rootKey>>, ok)
PublicRead(ok) ==
    Call("curl", <<"https://" \o domainName \o "/" \o RESOURCE_CUSTOM_DOMAIN_BASE_PATH
                      \o "/Keys/" \o rootKey, rootKey>>, ok)

-----------------------------------------------------------------------------
(* Two runs of aws-deploy.py with the same parameters against one account.  *)
(* Each run is a process of its own; the variables of the run that is not   *)
(* scheduled are kept in other, and the account is shared.                  *)

\* The variables of a run.
LocalState ==
    [params |-> params, config |-> config, pc |-> pc, phase |-> phase,
     stackName |-> stackName, databaseName |-> databaseName,
     apiGatewayName |-> apiGatewayName, domainName |-> domainName,
     deploymentPackageName |-> deploymentPackageName, templateName |-> templateName,
     template |-> template, capabilityFile |-> capabilityFile,
     capabilitySet |-> capabilitySet, rootKey |-> rootKey,
     tableEntryAttrs |-> tableEntryAttrs, tableList |-> tableList,
     apiBaseUrl |-> apiBaseUrl, publicBaseUrl |-> publicBaseUrl, calls |-> calls,
     message |-> message, exitStatus |-> exitStatus, files |-> files]

RaceInit ==
    /\ params \in [region : {Region},
                   deployment_bucket : {AWS_S3_DEFAULT_DEPLOYMENT_BUCKET},
                   database_name : {API_KEY_TABLE_DEFAULT_NAME},
                   stack_name : {AWS_CLOUD_FORMATION_DEFAULT_STACK_NAME},
                   capability_file : {None},
                   api_gateway_name : {"ApiKeyManager"},
                   deployment_stage : {"production"},
                   domain_name : DomainNames]
    /\ config = [RESOURCE_KEY_CREATE_PATH |-> RESOURCE_KEY_CREATE_PATH,
                 RESOURCE_KEY_ACCESS_PATH |-> RESOURCE_KEY_ACCESS_PATH]
    /\ pc = "start"
    /\ phase = "start"
    /\ stackName = None /\ databaseName = None
    /\ apiGatewayName = None /\ domainName = None
    /\ deploymentPackageName = None /\ templateName = None /\ template = PyNone
    /\ capabilityFile = PyNone /\ capabilitySet = PyNone
    /\ rootKey = None /\ tableEntryAttrs = PyNone
    /\ tableList = {}
    /\ apiBaseUrl = None /\ publicBaseUrl = None
    /\ calls = <<>>
    /\ message = None
    /\ exitStatus = NotExited
    /\ tables \in InitialTables
    /\ buckets \in InitialBuckets
    /\ objects = {}
    /\ stacks = NoStacks
    /\ items = {}
    /\ domains = {DomainItem("api.example.com", TRUE)}
    /\ CodecIdle
    /\ files = {}
    /\ BuilderIdle
    /\ RegistrarIdle
    /\ other = LocalState

\* The operating system takes the processor from one run and gives it to
\* the other, between two blocking steps.
Yield ==
    /\ other.pc # "absent"
    /\ other' = LocalState
    /\ params' = other.params /\ config' = other.config
    /\ pc' = other.pc /\ phase' = other.phase
    /\ stackName' = other.stackName /\ databaseName' = other.databaseName
    /\ apiGatewayName' = other.apiGatewayName /\ domainName' = other.domainName
    /\ deploymentPackageName' = other.deploymentPackageName
    /\ templateName' = other.templateName /\ template' = other.template
    /\ capabilityFile' = other.capabilityFile /\ capabilitySet' = other.capabilitySet
    /\ rootKey' = other.rootKey /\ tableEntryAttrs' = other.tableEntryAttrs
    /\ tableList' = other.tableList
    /\ apiBaseUrl' = other.apiBaseUrl /\ publicBaseUrl' = other.publicBaseUrl
    /\ calls' = other.calls /\ message' = other.message
    /\ exitStatus' = other.exitStatus /\ files' = other.files
    /\ UNCHANGED <<remote, codec, builder, registrar>>

RaceNext == Next \/ Yield

RaceSpec == RaceInit /\ [][RaceNext]_vars

\* C21: a run issues create-stack only after its own list-tables response
\* showed the table absent, and nothing else stands between two runs: two
\* concurrent runs can both pass the check and both issue create-stack for
\* the same table.
C21_CheckThenCreateNotAtomic ==
    \A run \in {LocalState, other} :
        \A i \in 1..Len(run.calls) :
            run.calls[i].op = "create-stack" =>
                /\ run.databaseName \notin run.tableList
                /\ \E j \in 1..(i - 1) : run.calls[j] = Call("list-tables", <<run.params.region>>, TRUE)

C21_Witness ==
    /\ databaseName = other.databaseName
    /\ databaseName \notin tableList /\ databaseName \notin other.tableList
    /\ template # PyNone /\ other.template # PyNone
    /\ template.TableName = databaseName /\ other.template.TableName = databaseName
    /\ \E i \in 1..Len(calls), j \in 1..Len(other.calls) :
          /\ calls[i].op = "create-stack" /\ other.calls[j].op = "create-stack"
          /\ calls[i].args = other.calls[j].args

-----------------------------------------------------------------------------
\* C22: within one run the same derived names are used at every step: the
\* table name found absent, the TableName of the template and the table of
\* put-item are equal; describe-stack-resource queries the stack name given
\* to create-stack; the template URL of create-stack names the object key
\* under which the template was uploaded.
C22_SameNamesThroughout ==
    /\ template # PyNone =>
          /\ template.TableName = databaseName
          /\ template.TableName \notin tableList
    /\ \A c \in Issued :
          /\ c.op = "put-item" => template # PyNone /\ c.args[1] = template.TableName
          /\ c.op = "describe-stack-resource" =>
                \E d \in Issued : d.op = "create-stack" /\ d.ok /\ d.args[1] = c.args[1]
          /\ c.op = "create-stack" =>
                \E u \in Issued :
                    /\ u.op = "put-object" /\ u.ok
                    /\ u.args[2] = templateName /\ templateName \in files
                    /\ c.args[2] = "https://" \o u.args[1] \o ".s3." \o params.region
                                      \o ".amazonaws.com/" \o u.args[2]

C22_Witness ==
    /\ pc = "done"
    /\ params.deployment_stage = "testing"
    /\ template.TableName = "ApiKeyTable-testing"
    /\ Call("put-item", <<"ApiKeyTable-testing">>, TRUE) \in Issued
    /\ Call("describe-stack-resource", <<"aws-api-key-manager-testing">>, TRUE) \in Issued

====
